---- MODULE Spec2Model ----
(***************************************************************************)
(* A model of src/upload/gcs_upload.py: GCSUploader.upload_file,           *)
(* GCSUploader.upload_directory and the upload branch of main, run against *)
(* a storage bucket that a concurrent writer may also create blobs in.     *)
(*                                                                         *)
(* Strings whose characters matter (paths, patterns, blob names) are       *)
(* sequences of one-character strings, so that joining, splitting and      *)
(* character replacement are computed and not assumed.                     *)
(***************************************************************************)
EXTENDS Integers, Sequences, FiniteSets, TLC

VARIABLES
    args,         \* the parsed command line (argparse namespace)
    srcKind,      \* what args.source is on disk: "missing", "file" or "dir"
    flavour,      \* host path convention: "posix" or "windows"
    tree,         \* entries under the source directory, in traversal order
    blobs,        \* the bucket: blob name -> content, defined where a blob exists
    pc,           \* position of the single control thread
    files,        \* upload_directory: the discovered regular files
    idx,          \* upload_directory: 1-based position of the loop in files
    results,      \* upload_directory: the accumulating batch
    batch,        \* what upload_directory handed to main: "none", "raised" or "returned"
    call,         \* the upload_file activation (arguments, locals, what it did)
    ret,          \* outcome of the last upload_file / upload_directory call
    exitCode,     \* value returned by main, -1 while it runs
    invoked,      \* sources upload_file was invoked for, in order
    storageUsed,  \* whether a storage client call has been made in this run
    summary,      \* upload_directory: the counts of its summary
    run,          \* 1-based number of the current CLI invocation
    outcomes      \* ret of each upload_file call so far, in order, over all runs

vars == <<args, srcKind, flavour, tree, blobs, pc, files, idx, results, batch,
          call, ret, exitCode, invoked, storageUsed, summary, run, outcomes>>

-----------------------------------------------------------------------------
(* Bounds *)

\* Largest number of regular files under the source directory.
MaxFiles == 3

\* Number of times the same command line is run in SpecTwice.
MaxRuns == 2

-----------------------------------------------------------------------------
(* Characters and strings *)

SL == "/"
BS == "\\"
DOT == "."

Letters == <<"a", "c", "d", "e">>

Docs == <<"d", "o", "c", "s">>
NoString == <<>>

RECURSIVE Join(_, _)
\* sep.join(parts)
Join(parts, sep) ==
    IF parts = <<>> THEN <<>>
    ELSE IF Len(parts) = 1 THEN parts[1]
    ELSE parts[1] \o <<sep>> \o Join(Tail(parts), sep)

RECURSIVE SplitAcc(_, _, _, _)
SplitAcc(s, seps, cur, acc) ==
    IF s = <<>> THEN Append(acc, cur)
    ELSE IF Head(s) \in seps
         THEN SplitAcc(Tail(s), seps, <<>>, Append(acc, cur))
         ELSE SplitAcc(Tail(s), seps, Append(cur, Head(s)), acc)

\* s split at every character of seps (empty pieces kept)
Split(s, seps) == SplitAcc(s, seps, <<>>, <<>>)

RECURSIVE Replace(_, _, _)
\* str.replace(old, new) for one-character old and new
Replace(s, old, new) ==
    IF s = <<>> THEN <<>>
    ELSE <<IF Head(s) = old THEN new ELSE Head(s)>> \o Replace(Tail(s), old, new)

EndsWith(s, suffix) ==
    /\ Len(s) >= Len(suffix)
    /\ SubSeq(s, Len(s) - Len(suffix) + 1, Len(s)) = suffix

-----------------------------------------------------------------------------
(* pathlib, as far as upload_directory uses it *)

\* os.sep of the host
Sep(fl) == IF fl = "posix" THEN SL ELSE BS

\* the characters the host's pathlib flavour treats as separators
Seps(fl) == IF fl = "posix" THEN {SL} ELSE {BS, SL}

RECURSIVE LeadingSeps(_, _)
LeadingSeps(s, fl) ==
    IF s # <<>> /\ Head(s) \in Seps(fl) THEN 1 + LeadingSeps(Tail(s), fl) ELSE 0

\* The root pathlib keeps of a path string.  POSIX keeps exactly two leading
\* slashes as they are and collapses any other number to one.  The Windows
\* flavour is modelled for strings with no drive and at most one leading
\* separator (Prefixes contains no other).
PathRoot(s, fl) ==
    LET n == LeadingSeps(s, fl) IN
    IF n = 0 THEN <<>>
    ELSE IF fl = "posix" /\ n = 2 THEN <<SL, SL>>
    ELSE <<Sep(fl)>>

NonTrivial(c) == c # <<>> /\ c # <<DOT>>

\* the components pathlib keeps of a path string: empty and "." ones dropped
PathParts(s, fl) == SelectSeq(Split(s, Seps(fl)), NonTrivial)

\* str(path) of a path with the given root and components
PathStr(root, parts, fl) ==
    IF root = <<>> /\ parts = <<>> THEN <<DOT>>
    ELSE root \o Join(parts, Sep(fl))

\* The variant of Destination that leaves the separator normalisation out.
DestinationNoNormalize(prefix, rel, fl) ==
    IF prefix # NoString
    THEN PathStr(PathRoot(prefix, fl), PathParts(prefix, fl) \o rel, fl)
    ELSE PathStr(<<>>, rel, fl)

\* upload_directory's destination for the file whose path relative to
\* source_dir has components rel
Destination(prefix, rel, fl) ==
    LET destination == IF prefix # NoString
                       THEN PathStr(PathRoot(prefix, fl), PathParts(prefix, fl) \o rel, fl)
                       ELSE PathStr(<<>>, rel, fl)
    IN Replace(destination, BS, SL)

-----------------------------------------------------------------------------
(* mimetypes and glob *)

PdfExt == <<DOT, "p">>
TxtExt == <<DOT, "t">>

\* mimetypes.guess_type on the file name, then the octet-stream default
GuessContentType(name) ==
    LET guessed == IF EndsWith(name, PdfExt) THEN "application/pdf"
                   ELSE IF EndsWith(name, TxtExt) THEN "text/plain"
                   ELSE "None"
    IN IF guessed = "None" THEN "application/octet-stream" ELSE guessed

\* fnmatch of a pattern "*" + suffix against a final path component
Matches(pattern, name) ==
    /\ pattern # <<>>
    /\ Head(pattern) = "*"
    /\ EndsWith(name, Tail(pattern))

AllPattern == <<"*">>
PdfPattern == <<"*">> \o PdfExt

-----------------------------------------------------------------------------
(* The source directory *)

RECURSIVE Repeat(_, _)
Repeat(c, n) == IF n = 0 THEN <<>> ELSE <<c>> \o Repeat(c, n - 1)

\* the name of the i-th file without its extension: a, c, d, e, aa, cc, ...
Stem(i) == Repeat(Letters[((i - 1) % Len(Letters)) + 1], ((i - 1) \div Len(Letters)) + 1)

SubDir == <<"b">>

\* The i-th regular file under the source directory: odd ones at the top
\* level, even ones in the subdirectory; two of every four are PDFs.
FileEntry(i) ==
    LET name == Stem(i) \o (IF i % 4 \in {2, 3} THEN PdfExt ELSE TxtExt) IN
    [rel |-> IF i % 2 = 1 THEN <<name>> ELSE <<SubDir, name>>, isFile |-> TRUE]

DirEntry == [rel |-> <<SubDir>>, isFile |-> FALSE]

RECURSIVE FileEntries(_, _)
FileEntries(from, to) ==
    IF from > to THEN <<>> ELSE <<FileEntry(from)>> \o FileEntries(from + 1, to)

\* A directory holding n regular files, in traversal order; the
\* subdirectory is an entry of its own.
Tree(n) ==
    IF n < 2 THEN FileEntries(1, n)
    ELSE <<FileEntry(1), DirEntry>> \o FileEntries(2, n)

-----------------------------------------------------------------------------
(* Results and outcomes *)

NoResult ==
    [status |-> "none", source |-> <<>>, destination |-> NoString,
     content_type |-> "None", reason |-> "None", error |-> "None", public |-> FALSE]

\* the dictionary upload_file returns for an existing blob it does not overwrite
SkippedResult(destination) ==
    [NoResult EXCEPT !.status = "skipped", !.reason = "blob_exists",
                     !.destination = destination]

\* the dictionary upload_file returns after a write
SuccessResult(source, destination, content_type, public) ==
    [NoResult EXCEPT !.status = "success", !.source = source,
                     !.destination = destination, !.content_type = content_type,
                     !.public = public]

\* the dictionary upload_directory records for a file whose upload raised
ErrorResult(source, error) ==
    [NoResult EXCEPT !.status = "error", !.source = source, !.error = error]

NoRet == [kind |-> "none", result |-> NoResult, error |-> "None"]
Return(result) == [kind |-> "return", result |-> result, error |-> "None"]
Raise(error) == [kind |-> "raise", result |-> NoResult, error |-> error]

\* Exceptions of the storage client: GoogleCloudError (PreconditionFailed is
\* one) and those that are not (transport errors of the auth and HTTP layers).
GoogleCloudErrors == {"GoogleCloudError", "PreconditionFailed"}
Faults == {"GoogleCloudError", "TransportError"}
Outcomes == {"ok"} \cup Faults

\* A variant of ExceptGoogleCloudError that reports instead of re-raising.
ExceptGoogleCloudErrorSwallow(e, source) ==
    IF e \in GoogleCloudErrors THEN Return(ErrorResult(source, e)) ELSE Raise(e)

\* upload_file's handler around the write: log, then re-raise
ExceptGoogleCloudError(e, source) == Raise(e)

RECURSIVE Count(_, _)
\* sum(1 for r in rs if r.get("status") == status)
Count(rs, status) ==
    IF rs = <<>> THEN 0
    ELSE (IF Head(rs).status = status THEN 1 ELSE 0) + Count(Tail(rs), status)

\* any(r.get("status") == "error" for r in rs)
AnyError(rs) == \E i \in 1..Len(rs) : rs[i].status = "error"

-----------------------------------------------------------------------------
(* The storage client *)

Exists(bl, name) == name \in DOMAIN bl

\* the content of the blob, "none" where there is no blob
Content(bl, name) == IF Exists(bl, name) THEN bl[name] ELSE "none"

\* A variant of IfGenerationMatch that never passes the precondition.
IfGenerationMatchNone(overwrite) == {}

\* The if_generation_match argument of the write: {0} stands for generation
\* 0 (the object must not exist), {} for None (no precondition).
IfGenerationMatch(overwrite) == IF ~overwrite THEN {0} ELSE {}

\* whether the service accepts a write of name under precondition gen
PreconditionHolds(bl, name, gen) == gen = {} \/ ~Exists(bl, name)

\* the bucket after a write of name
Written(bl, name, content) ==
    [n \in DOMAIN bl \cup {name} |-> IF n = name THEN content ELSE bl[n]]

-----------------------------------------------------------------------------
(* Discovery *)

RECURSIVE Glob(_, _, _)
\* source_dir.rglob(pattern) when recursive, source_dir.glob(pattern) otherwise
Glob(entries, pattern, recursive) ==
    IF entries = <<>> THEN <<>>
    ELSE LET e == Head(entries)
             hit == /\ Matches(pattern, e.rel[Len(e.rel)])
                    /\ recursive \/ Len(e.rel) = 1
         IN (IF hit THEN <<e>> ELSE <<>>) \o Glob(Tail(entries), pattern, recursive)

IsFile(e) == e.isFile

\* the files upload_directory uploads
Discover(entries, pattern, recursive) ==
    SelectSeq(Glob(entries, pattern, recursive), IsFile)

-----------------------------------------------------------------------------
(* Initial states *)

NoCall ==
    [source |-> <<>>, given |-> NoString, caller |-> "none",
     destination |-> NoString, content_type |-> "None",
     found |-> "none", checked |-> "no", wrote |-> FALSE, fault |-> "none",
     raised |-> "None"]

NewCall(source, given, caller) ==
    [NoCall EXCEPT !.source = source, !.given = given, !.caller = caller]

NoSummary == [successful |-> 0, skipped |-> 0, failed |-> 0]

\* the name of the file a single-file upload sends
SingleSource == FileEntry(1).rel

ArgSets(recursives, patterns, destinations, contentTypes) ==
    [recursive : recursives, pattern : patterns,
     destination : destinations, content_type : contentTypes,
     public : BOOLEAN, no_overwrite : BOOLEAN]

InitWith(argSet, kinds, flavours, trees) ==
    /\ args \in argSet
    /\ srcKind \in kinds
    /\ flavour \in flavours
    /\ tree \in IF srcKind = "dir" THEN trees ELSE {<<>>}
    /\ blobs = <<>>
    /\ pc = "start"
    /\ files = <<>>
    /\ idx = 0
    /\ results = <<>>
    /\ batch = "none"
    /\ call = NoCall
    /\ ret = NoRet
    /\ exitCode = -1
    /\ invoked = <<>>
    /\ storageUsed = FALSE
    /\ summary = NoSummary
    /\ run = 1
    /\ outcomes = <<>>

Init ==
    InitWith(ArgSets(BOOLEAN, {AllPattern, PdfPattern}, {NoString, Docs}, {"None"}),
             {"missing", "file", "dir"}, {"posix"}, {Tree(n) : n \in 0..MaxFiles})

-----------------------------------------------------------------------------
(* main: the upload branch *)

Overwrite == ~args.no_overwrite

\* main from the resolution of args.source to the call it dispatches to
MainStart ==
    /\ pc = "start"
    /\ IF srcKind = "dir" \/ args.recursive
       THEN /\ pc' = "ud_entry"
            /\ UNCHANGED <<call, invoked>>
       ELSE /\ call' = NewCall(SingleSource, args.destination, "main")
            /\ invoked' = Append(invoked, SingleSource)
            /\ pc' = "uf_entry"
    /\ UNCHANGED <<args, srcKind, flavour, tree, blobs, files, idx, results, batch,
                   ret, exitCode, storageUsed, summary, run, outcomes>>

-----------------------------------------------------------------------------
(* upload_directory *)

\* A variant of ValidateSourceDir that only checks that the path exists.
ValidateSourceDirExistsOnly(kind) ==
    IF kind = "missing" THEN "FileNotFoundError" ELSE "ok"

\* upload_directory's checks of source_dir: the error raised, or "ok"
ValidateSourceDir(kind) ==
    IF kind = "missing" THEN "FileNotFoundError"
    ELSE IF kind # "dir" THEN "ValueError"
    ELSE "ok"

\* upload_directory from its entry to the loop: validation and discovery
UploadDirectoryBegin ==
    /\ pc = "ud_entry"
    /\ IF ValidateSourceDir(srcKind) # "ok"
       THEN /\ ret' = Raise(ValidateSourceDir(srcKind))
            /\ batch' = "raised"
            /\ pc' = "main_ret"
            /\ UNCHANGED <<files, idx, results>>
       ELSE LET found == Discover(tree, args.pattern, args.recursive) IN
            /\ files' = found
            /\ results' = <<>>
            /\ IF found = <<>>
               THEN /\ ret' = Return(NoResult)
                    /\ batch' = "returned"
                    /\ pc' = "main_ret"
                    /\ idx' = idx
               ELSE /\ idx' = 1
                    /\ pc' = "ud_loop"
                    /\ UNCHANGED <<ret, batch>>
    /\ UNCHANGED <<args, srcKind, flavour, tree, blobs, call, exitCode, invoked,
                   storageUsed, summary, run, outcomes>>

\* the loop body up to the call of upload_file
UdInvoke ==
    /\ pc = "ud_loop"
    /\ idx \in 1..Len(files)
    /\ LET relative_path == files[idx].rel
           destination == Destination(args.destination, relative_path, flavour)
       IN /\ call' = NewCall(relative_path, destination, "ud")
          /\ invoked' = Append(invoked, relative_path)
    /\ pc' = "uf_entry"
    /\ ret' = NoRet
    /\ UNCHANGED <<args, srcKind, flavour, tree, blobs, files, idx, results, batch,
                   exitCode, storageUsed, summary, run, outcomes>>

\* A variant of Collected that gives up the batch at the first failure.
CollectedAbort(rs, r, source) ==
    IF r.kind = "return" THEN Append(rs, r.result) ELSE rs

\* A variant of Collected that drops skipped files from the batch.
CollectedDropSkipped(rs, r, source) ==
    IF r.kind = "return"
    THEN IF r.result.status = "skipped" THEN rs ELSE Append(rs, r.result)
    ELSE Append(rs, ErrorResult(source, r.error))

\* the batch after the try/except around upload_file of the loop body
Collected(rs, r, source) ==
    IF r.kind = "return"
    THEN Append(rs, r.result)
    ELSE Append(rs, ErrorResult(source, r.error))

\* whether the for loop has another file after the i-th of n
LoopContinues(i, n, r) == i < n

\* the rest of the loop body: the result, or the error, joins the batch;
\* the activation of upload_file is gone
UdCollect ==
    /\ pc = "uf_ret"
    /\ call.caller = "ud"
    /\ results' = Collected(results, ret, call.source)
    /\ IF LoopContinues(idx, Len(files), ret)
       THEN idx' = idx + 1 /\ pc' = "ud_loop"
       ELSE idx' = idx /\ pc' = "ud_summary"
    /\ call' = NoCall
    /\ ret' = NoRet
    /\ UNCHANGED <<args, srcKind, flavour, tree, blobs, files, batch,
                   exitCode, invoked, storageUsed, summary, run, outcomes>>

\* the summary and the return of the batch
UdSummary ==
    /\ pc = "ud_summary"
    /\ summary' = [successful |-> Count(results, "success"),
                   skipped |-> Count(results, "skipped"),
                   failed |-> Count(results, "error")]
    /\ ret' = Return(NoResult)
    /\ batch' = "returned"
    /\ pc' = "main_ret"
    /\ UNCHANGED <<args, srcKind, flavour, tree, blobs, files, idx, results, call,
                   exitCode, invoked, storageUsed, run, outcomes>>

-----------------------------------------------------------------------------
(* upload_file *)

\* what the source path is when upload_file looks at it: a discovered file
\* may have been removed or replaced since discovery
SourceKinds == IF call.caller = "ud" THEN {"file", "missing", "dir"} ELSE {srcKind}

\* the blob name upload_file writes to: the destination given, or the
\* source's file name
BlobName(c) == IF c.given = NoString THEN c.source[Len(c.source)] ELSE c.given

\* whether upload_file asks the client if the blob exists: the right operand
\* of "not overwrite and blob.exists()" is evaluated only for a true left one
ChecksExistence(overwrite) == ~overwrite

\* A variant of SkipCondition that never skips.
SkipConditionNever(overwrite, exists) == FALSE

\* A variant of SkipCondition that skips an existing blob whatever overwrite is.
SkipConditionAnyMode(overwrite, exists) == exists

\* the condition under which upload_file returns the skipped dictionary
SkipCondition(overwrite, exists) == ~overwrite /\ exists

\* upload_file from its entry through the existence check
UploadFileBegin ==
    /\ pc = "uf_entry"
    /\ \E kind \in SourceKinds, outcome \in Outcomes :
         LET destination == BlobName(call)
             content_type == IF args.content_type = "None"
                             THEN GuessContentType(call.source[Len(call.source)])
                             ELSE args.content_type
             check == ChecksExistence(Overwrite)
             resolved == [call EXCEPT !.destination = destination,
                                      !.content_type = content_type,
                                      !.found = Content(blobs, destination)]
         IN
         IF kind # "file"
         THEN /\ outcome = "ok"
              /\ ret' = Raise(IF kind = "missing" THEN "FileNotFoundError" ELSE "ValueError")
              /\ pc' = "uf_ret"
              /\ call' = call
              /\ storageUsed' = storageUsed
              /\ outcomes' = Append(outcomes, ret')
         ELSE /\ check \/ outcome = "ok"
              /\ storageUsed' = (storageUsed \/ check)
              /\ IF outcome # "ok"
                 THEN /\ call' = [resolved EXCEPT !.checked = "raised", !.fault = "exists",
                                                  !.raised = outcome]
                      /\ ret' = Raise(outcome)
                      /\ pc' = "uf_ret"
                      /\ outcomes' = Append(outcomes, ret')
                 ELSE IF SkipCondition(Overwrite, Exists(blobs, destination))
                 THEN /\ call' = [resolved EXCEPT !.checked = IF check THEN "true" ELSE "no"]
                      /\ ret' = Return(SkippedResult(destination))
                      /\ pc' = "uf_ret"
                      /\ outcomes' = Append(outcomes, ret')
                 ELSE /\ call' = [resolved EXCEPT !.checked = IF check THEN "false" ELSE "no"]
                      /\ pc' = "uf_write"
                      /\ UNCHANGED <<ret, outcomes>>
    /\ UNCHANGED <<args, srcKind, flavour, tree, blobs, files, idx, results, batch,
                   exitCode, invoked, summary, run>>

\* upload_file from the metadata to the end of the write; without
\* make_public the result is built and returned in the same step
UfWrite ==
    /\ pc = "uf_write"
    /\ storageUsed' = TRUE
    /\ \E outcome \in Outcomes :
         LET generation_match == IfGenerationMatch(Overwrite) IN
         IF outcome # "ok"
         THEN /\ call' = [call EXCEPT !.wrote = TRUE, !.fault = "write",
                                      !.raised = outcome]
              /\ ret' = IF outcome \in GoogleCloudErrors
                        THEN ExceptGoogleCloudError(outcome, call.source)
                        ELSE Raise(outcome)
              /\ pc' = "uf_ret"
              /\ blobs' = blobs
         ELSE IF ~PreconditionHolds(blobs, call.destination, generation_match)
         THEN /\ call' = [call EXCEPT !.wrote = TRUE, !.fault = "precondition",
                                      !.raised = "PreconditionFailed"]
              /\ ret' = ExceptGoogleCloudError("PreconditionFailed", call.source)
              /\ pc' = "uf_ret"
              /\ blobs' = blobs
         ELSE /\ call' = [call EXCEPT !.wrote = TRUE]
              /\ blobs' = Written(blobs, call.destination, "mine")
              /\ IF args.public
                 THEN pc' = "uf_public" /\ ret' = ret
                 ELSE /\ ret' = Return(SuccessResult(call.source, call.destination,
                                                     call.content_type, FALSE))
                      /\ pc' = "uf_ret"
    /\ outcomes' = IF pc' = "uf_ret" THEN Append(outcomes, ret') ELSE outcomes
    /\ UNCHANGED <<args, srcKind, flavour, tree, files, idx, results, batch,
                   exitCode, invoked, summary, run>>

\* upload_file from make_public to its return
UfPublic ==
    /\ pc = "uf_public"
    /\ storageUsed' = TRUE
    /\ \E outcome \in Outcomes :
         IF outcome # "ok"
         THEN /\ call' = [call EXCEPT !.fault = "public", !.raised = outcome]
              /\ ret' = IF outcome \in GoogleCloudErrors
                        THEN ExceptGoogleCloudError(outcome, call.source)
                        ELSE Raise(outcome)
         ELSE /\ call' = call
              /\ ret' = Return(SuccessResult(call.source, call.destination,
                                             call.content_type, TRUE))
    /\ pc' = "uf_ret"
    /\ outcomes' = Append(outcomes, ret')
    /\ UNCHANGED <<args, srcKind, flavour, tree, blobs, files, idx, results, batch,
                   exitCode, invoked, summary, run>>

-----------------------------------------------------------------------------
(* main: the exit status *)

\* A variant of DirectoryStatus that ignores the batch.
DirectoryStatusZero(rs) == 0

\* A variant of DirectoryStatus that takes an empty batch for a failure.
DirectoryStatusEmptyFails(rs) == IF rs = <<>> \/ AnyError(rs) THEN 1 ELSE 0

\* main's return value after upload_directory returned rs
DirectoryStatus(rs) == IF AnyError(rs) THEN 1 ELSE 0

\* main's return value after upload_file returned or raised r
FileStatus(r) ==
    IF r.kind = "raise" THEN 1
    ELSE IF r.result.status = "error" THEN 1
    ELSE 0

\* main after upload_directory: the batch decides the status; an exception
\* reaches one of main's handlers
MainAfterDirectory ==
    /\ pc = "main_ret"
    /\ exitCode' = IF batch = "raised" THEN 1 ELSE DirectoryStatus(results)
    /\ pc' = "done"
    /\ UNCHANGED <<args, srcKind, flavour, tree, blobs, files, idx, results, batch,
                   call, ret, invoked, storageUsed, summary, run, outcomes>>

\* main after upload_file
MainAfterFile ==
    /\ pc = "uf_ret"
    /\ call.caller = "main"
    /\ exitCode' = FileStatus(ret)
    /\ pc' = "done"
    /\ UNCHANGED <<args, srcKind, flavour, tree, blobs, files, idx, results, batch,
                   call, ret, invoked, storageUsed, summary, run, outcomes>>

-----------------------------------------------------------------------------
(* The environment *)

\* Another writer creates the blob the upload_file call in progress is
\* about: before the existence check, between the check and the write, or
\* after the write was rejected or before make_public.  A blob created at
\* any earlier moment is the one created just before the check.
OtherWriter ==
    /\ pc \in {"uf_entry", "uf_write", "uf_public"}
    /\ ~Exists(blobs, BlobName(call))
    /\ blobs' = Written(blobs, BlobName(call), "other")
    /\ UNCHANGED <<args, srcKind, flavour, tree, pc, files, idx, results, batch,
                   call, ret, exitCode, invoked, storageUsed, summary, run, outcomes>>

\* the same command line is run again against the same bucket
Rerun ==
    /\ pc = "done"
    /\ run < MaxRuns
    /\ run' = run + 1
    /\ pc' = "start"
    /\ files' = <<>>
    /\ idx' = 0
    /\ results' = <<>>
    /\ batch' = "none"
    /\ call' = NoCall
    /\ ret' = NoRet
    /\ exitCode' = -1
    /\ invoked' = <<>>
    /\ storageUsed' = FALSE
    /\ summary' = NoSummary
    /\ UNCHANGED <<args, srcKind, flavour, tree, blobs, outcomes>>

-----------------------------------------------------------------------------
(* Specifications *)

Next ==
    \/ MainStart
    \/ UploadDirectoryBegin
    \/ UdInvoke
    \/ UploadFileBegin
    \/ UfWrite
    \/ UfPublic
    \/ UdCollect
    \/ UdSummary
    \/ MainAfterDirectory
    \/ MainAfterFile
    \/ OtherWriter

Spec == Init /\ [][Next]_vars

\* The single-file command line, run MaxRuns times against the same bucket.
InitTwice ==
    InitWith(ArgSets({FALSE}, {AllPattern}, {NoString, Docs}, {"None", "application/json"}),
             {"missing", "file"}, {"posix", "windows"}, {<<>>})

NextTwice ==
    \/ MainStart
    \/ UploadFileBegin
    \/ UfWrite
    \/ UfPublic
    \/ MainAfterFile
    \/ OtherWriter
    \/ Rerun

SpecTwice == InitTwice /\ [][NextTwice]_vars

\* Destination derivation alone: directories holding one file, every prefix
\* of Prefixes, both host conventions.
CTxt == <<"c", DOT, "t", "x", "t">>

\* relative paths of the one file; the last is a single POSIX file name
\* that contains a backslash
RelPaths(fl) ==
    {<<CTxt>>, <<SubDir, CTxt>>, <<SubDir, <<"d">>, CTxt>>}
        \cup (IF fl = "posix" THEN {<<<<"b", BS, "c">>>>} ELSE {})

\* destination prefixes: none, plain, trailing or doubled or leading
\* separator, either separator inside, "." components
Prefixes ==
    {NoString, Docs, Docs \o <<SL>>, Docs \o <<SL, "s">>, Docs \o <<BS, "s">>,
     <<DOT, SL>> \o Docs, <<SL>> \o Docs, Docs \o <<SL, SL, "s">>, <<DOT>>}

InitDest ==
    /\ InitWith(ArgSets({TRUE}, {AllPattern}, Prefixes, {"None"}),
                {"dir"}, {"posix", "windows"},
                {<<[rel |-> r, isFile |-> TRUE]>> : r \in RelPaths("posix")})
    /\ tree[1].rel \in RelPaths(flavour)

NextDest ==
    \/ MainStart
    \/ UploadDirectoryBegin
    \/ UdInvoke

SpecDest == InitDest /\ [][NextDest]_vars

-----------------------------------------------------------------------------
(* Properties *)

RECURSIVE Rels(_)
Rels(fs) == IF fs = <<>> THEN <<>> ELSE <<Head(fs).rel>> \o Rels(Tail(fs))

RECURSIVE Slashed(_)
\* every component with its backslashes turned into forward slashes
Slashed(parts) ==
    IF parts = <<>> THEN <<>>
    ELSE <<Replace(Head(parts), BS, SL)>> \o Slashed(Tail(parts))

\* the regular files of the tree the pattern selects, as a set of paths
Selected ==
    {tree[k].rel : k \in {j \in 1..Len(tree) :
        /\ tree[j].isFile
        /\ Matches(args.pattern, tree[j].rel[Len(tree[j].rel)])
        /\ args.recursive \/ Len(tree[j].rel) = 1}}

InDirectoryLoop ==
    /\ srcKind = "dir"
    /\ pc \in {"ud_loop", "uf_entry", "uf_write", "uf_public", "uf_ret",
               "ud_summary", "main_ret", "done"}

\* C1: in upload_directory, a file whose upload_file call raises gets an
\* Error result with its own source path and the error's message at its own
\* position of the batch, the batch is not abandoned, and upload_file is
\* invoked for every file after it.
C1_FailureIsolation ==
    InDirectoryLoop =>
        /\ batch # "raised"
        /\ Len(invoked) <= Len(files)
        /\ invoked = SubSeq(Rels(files), 1, Len(invoked))
        /\ \A i \in 1..Len(outcomes) :
             outcomes[i].kind = "raise" =>
                 /\ outcomes[i].error # "None"
                 /\ IF i <= Len(results)
                    THEN results[i] = [NoResult EXCEPT !.status = "error",
                                                       !.source = files[i].rel,
                                                       !.error = outcomes[i].error]
                    ELSE pc = "uf_ret" /\ i = Len(outcomes)
                 /\ pc \in {"ud_summary", "main_ret", "done"} =>
                        /\ Len(results) = Len(files)
                        /\ invoked = Rels(files)

\* three files, the second failed, the others went through
C1_Witness ==
    /\ pc = "done"
    /\ Len(files) = 3
    /\ Len(results) = 3
    /\ results[1].status = "success"
    /\ results[2].status = "error"
    /\ results[2].error = "GoogleCloudError"
    /\ results[3].status = "success"
    /\ Len(invoked) = 3

\* C2: the batch upload_directory returns holds exactly one result per
\* discovered regular file, in discovery order, the i-th being the outcome of
\* the i-th file, and the three counts of the summary add up to the number of
\* files.
C2_OneResultPerFile ==
    (srcKind = "dir" /\ batch = "returned") =>
        /\ {files[i].rel : i \in 1..Len(files)} = Selected
        /\ \A i, j \in 1..Len(files) : files[i] = files[j] => i = j
        /\ Len(results) = Len(files)
        /\ Len(outcomes) = Len(files)
        /\ \A i \in 1..Len(results) :
             LET r == results[i]
                 o == outcomes[i]
                 name == Destination(args.destination, files[i].rel, flavour)
             IN /\ r.status \in {"success", "skipped", "error"}
                /\ o.kind = "return" => r = o.result
                /\ o.kind = "raise" => r.status = "error" /\ r.error = o.error
                /\ r.status \in {"success", "error"} => r.source = files[i].rel
                /\ r.status \in {"success", "skipped"} => r.destination = name
        /\ summary.successful = Cardinality({i \in 1..Len(results) : results[i].status = "success"})
        /\ summary.skipped = Cardinality({i \in 1..Len(results) : results[i].status = "skipped"})
        /\ summary.failed = Cardinality({i \in 1..Len(results) : results[i].status = "error"})
        /\ summary.successful + summary.skipped + summary.failed = Len(files)

\* a returned batch with all three kinds of result in it
C2_Witness ==
    /\ batch = "returned"
    /\ Len(files) = 3
    /\ summary.successful = 1
    /\ summary.skipped = 1
    /\ summary.failed = 1

UploadFileReturned == pc = "uf_ret" /\ call.caller # "none"

\* C3 as stated: with overwrite false and a blob at the destination, the
\* outcome of upload_file is Skipped (reason blob_exists), no write is
\* attempted and the blob's content is unchanged.
C3_Original ==
    (UploadFileReturned /\ ~Overwrite /\ call.found # "none") =>
        /\ ret = Return(SkippedResult(call.destination))
        /\ ~call.wrote
        /\ Content(blobs, call.destination) = call.found

\* C3 as amended: with overwrite false and a blob at the destination, the
\* outcome of upload_file is Skipped (reason blob_exists) unless the
\* existence check itself raises, and then that error is the outcome; it is
\* never a Success, no write is attempted and the blob's content is unchanged.
C3_SkipsExisting ==
    (UploadFileReturned /\ ~Overwrite /\ call.found # "none") =>
        /\ call.checked \in {"true", "raised"}
        /\ call.checked = "true" =>
               /\ ret.kind = "return"
               /\ ret.result.status = "skipped"
               /\ ret.result.reason = "blob_exists"
               /\ ret.result.destination = call.destination
        /\ call.checked = "raised" => ret.kind = "raise" /\ ret.error = call.raised
        /\ ret.result.status # "success"
        /\ ~call.wrote
        /\ Content(blobs, call.destination) = call.found

\* an existing blob of the other writer was skipped
C3_Witness ==
    /\ UploadFileReturned
    /\ ~Overwrite
    /\ call.found = "other"
    /\ call.checked = "true"
    /\ ret.result.status = "skipped"
    /\ blobs[call.destination] = "other"

\* C4: with overwrite false the write carries the must-not-exist
\* precondition; a blob the other writer created after the existence check
\* said there was none makes the write fail, and no step of the uploader
\* changes a blob of the other writer.
C4_RaceRejected ==
    [][~Overwrite =>
          /\ \A n \in DOMAIN blobs : blobs[n] = "other" => blobs'[n] = "other"
          /\ (/\ pc = "uf_write"
              /\ pc' # "uf_write"
              /\ call.checked = "false"
              /\ Exists(blobs, call.destination))
             => /\ pc' = "uf_ret"
                /\ ret'.kind = "raise"
                /\ call'.wrote
                /\ blobs' = blobs]_vars

\* the check found nothing, the other writer created the blob, the write
\* was refused and the blob is still the other writer's
C4_Witness ==
    /\ UploadFileReturned
    /\ ~Overwrite
    /\ call.checked = "false"
    /\ call.fault = "precondition"
    /\ ret.error = "PreconditionFailed"
    /\ Content(blobs, call.destination) = "other"

\* C5: after a directory upload that returned its batch, main returns 1 if
\* some result of the batch is an Error and 0 if none is.
C5_DirectoryExit ==
    (pc = "done" /\ batch = "returned") =>
        /\ exitCode \in {0, 1}
        /\ exitCode = 1 <=> \E i \in 1..Len(results) : results[i].status = "error"

\* a batch with a success and an error in it ends in status 1
C5_Witness ==
    /\ pc = "done"
    /\ batch = "returned"
    /\ exitCode = 1
    /\ \E i \in 1..Len(results) : results[i].status = "success"
    /\ \E i \in 1..Len(results) : results[i].status = "error"

\* C6: an error the storage client raises during upload_file (existence
\* check, write, lost precondition, make_public) is raised, as it is, to the
\* caller of upload_file and never becomes a returned result; the CLI's
\* single-file path then exits with status 1.
C6_ErrorPropagation ==
    /\ (UploadFileReturned /\ call.fault # "none") =>
           /\ ret.kind = "raise"
           /\ ret.error = call.raised
           /\ ret.result.status = "none"
           /\ outcomes[Len(outcomes)] = ret
    /\ (pc = "done" /\ call.caller = "main" /\ call.fault # "none") => exitCode = 1

\* the single-file path: the write went through, make_public failed
C6_Witness ==
    /\ pc = "done"
    /\ call.caller = "main"
    /\ call.fault = "public"
    /\ call.raised = "GoogleCloudError"
    /\ ret.kind = "raise"
    /\ exitCode = 1

\* C7: upload_directory on a source that is missing or is no directory
\* raises (FileNotFoundError, ValueError) before any storage client call and
\* before any upload_file call, and returns no batch.
C7_FailFast ==
    (args.recursive /\ srcKind # "dir" /\ pc \in {"main_ret", "done"}) =>
        /\ batch = "raised"
        /\ ret.kind = "raise"
        /\ ret.error = IF srcKind = "missing" THEN "FileNotFoundError" ELSE "ValueError"
        /\ ~storageUsed
        /\ invoked = <<>>
        /\ outcomes = <<>>
        /\ results = <<>>
        /\ blobs = <<>>

\* --recursive on a path that is a regular file
C7_Witness ==
    /\ pc = "done"
    /\ args.recursive
    /\ srcKind = "file"
    /\ ret.error = "ValueError"
    /\ exitCode = 1

\* C8: when no regular file under source_dir matches the pattern,
\* upload_directory returns an empty batch, raises nothing and calls neither
\* upload_file nor the storage client, and the CLI exits with status 0.
C8_EmptyBatch ==
    (pc \in {"main_ret", "done"} /\ srcKind = "dir" /\ Selected = {}) =>
        /\ batch = "returned"
        /\ ret.kind = "return"
        /\ results = <<>>
        /\ ~storageUsed
        /\ invoked = <<>>
        /\ pc = "done" => exitCode = 0

\* a directory that holds files, none of which the pattern matches
C8_Witness ==
    /\ pc = "done"
    /\ srcKind = "dir"
    /\ tree # <<>>
    /\ Selected = {}
    /\ exitCode = 0

\* C9: with overwrite true, runs of upload_file with the same arguments in
\* which the storage client raises nothing all end in Success with the same
\* destination and content type; no run makes an existence check, is skipped
\* or is refused for the blob being there.
C9_Idempotent ==
    (Overwrite /\ srcKind = "file") =>
        /\ UploadFileReturned =>
               /\ call.checked = "no"
               /\ call.fault # "precondition"
               /\ ret.result.status # "skipped"
               /\ call.fault = "none" => ret.result.status = "success"
        /\ \A k \in 1..Len(outcomes) :
               /\ outcomes[k].result.status \in {"none", "success"}
               /\ outcomes[k].kind = "raise" => outcomes[k].error \in Faults
        /\ \A j, k \in 1..Len(outcomes) :
             (outcomes[j].kind = "return" /\ outcomes[k].kind = "return") =>
                 /\ outcomes[j].result.destination = outcomes[k].result.destination
                 /\ outcomes[j].result.content_type = outcomes[k].result.content_type
                 /\ outcomes[j].result.destination =
                        IF args.destination = NoString
                        THEN SingleSource[Len(SingleSource)]
                        ELSE args.destination

\* the second run found the first run's blob and succeeded again
C9_Witness ==
    /\ Overwrite
    /\ run = 2
    /\ pc = "done"
    /\ Len(outcomes) = 2
    /\ outcomes[1].result.status = "success"
    /\ outcomes[2].result.status = "success"
    /\ call.found = "mine"

DocsBCTxt == Docs \o <<SL>> \o SubDir \o <<SL>> \o CTxt

\* C10: the destination upload_directory passes to upload_file is the
\* file's path relative to source_dir, behind the prefix's root and
\* components when the prefix is not empty, joined by forward slashes, with
\* no backslash left in it; prefix docs and file b/c.txt give docs/b/c.txt.
C10_Destination ==
    (pc = "uf_entry" /\ call.caller = "ud") =>
        LET rel == files[idx].rel
            prefix == args.destination
            dest == call.given
        IN /\ \A i \in 1..Len(dest) : dest[i] # BS
           /\ call.source = rel
           /\ prefix = NoString => dest = Join(Slashed(rel), SL)
           /\ prefix # NoString =>
                  dest = Replace(PathRoot(prefix, flavour), BS, SL)
                             \o Join(Slashed(PathParts(prefix, flavour) \o rel), SL)
           /\ (prefix = Docs /\ rel = <<SubDir, CTxt>>) => dest = DocsBCTxt

\* prefix docs and file b/c.txt on a host whose separator is the backslash
C10_Witness ==
    /\ pc = "uf_entry"
    /\ flavour = "windows"
    /\ args.destination = Docs
    /\ files[idx].rel = <<SubDir, CTxt>>
    /\ call.given = DocsBCTxt

====
